---- MODULE Spec2Model ----
(***************************************************************************)
(* A model of go-logger (github.com/alejoacosta74/go-logger): the          *)
(* package-level logger and its singleton constructor (logger.go), the     *)
(* options (color_formatter.go) and the rotating file hook                 *)
(* (rotating_file_hook.go), together with the parts of logrus v1.9.3 and   *)
(* lumberjack v2.2.1 those call into.                                      *)
(***************************************************************************)
EXTENDS Integers, Sequences, FiniteSets, TLC

(***************************************************************************)
(* Levels.  logrus numbers them from the most severe to the least severe:  *)
(* Panic = 0 ... Trace = 6, so "at least as severe as" is "<=".            *)
(***************************************************************************)
PanicLevel == 0
FatalLevel == 1
ErrorLevel == 2
WarnLevel == 3
InfoLevel == 4
DebugLevel == 5
TraceLevel == 6

Levels == PanicLevel..TraceLevel

\* logrus.AllLevels, in the order logrus lists them
AllLevels == <<PanicLevel, FatalLevel, ErrorLevel, WarnLevel, InfoLevel, DebugLevel, TraceLevel>>

\* the level names the model passes to WithLevel and SetLevel
LevelNames == {"panic", "fatal", "error", "warn", "info", "debug", "trace", "invalid"}

\* logrus.ParseLevel: the level a name stands for, -1 for "not a valid logrus Level"
ParseLevel(name) ==
  CASE name = "panic" -> PanicLevel
    [] name = "fatal" -> FatalLevel
    [] name = "error" -> ErrorLevel
    [] name \in {"warn", "warning"} -> WarnLevel
    [] name = "info" -> InfoLevel
    [] name = "debug" -> DebugLevel
    [] name = "trace" -> TraceLevel
    [] OTHER -> -1

Range(s) == {s[i] : i \in DOMAIN s}

(***************************************************************************)
(* Hooks and loggers.  A logger is the *Logger wrapper of logger.go with   *)
(* the logrus.Logger it points to: threshold, formatter, output, the       *)
(* entry's fields and the hooks in registration order.                     *)
(***************************************************************************)

\* runtimeContextHook.Levels: every level
CtxHookLevels == {TraceLevel, DebugLevel, InfoLevel, WarnLevel, ErrorLevel, FatalLevel, PanicLevel}

\* a runtimeContextHook whose Levels() returns the error level alone
NewRuntimeContextHook_ErrorOnly(skipFrames) ==
  [kind |-> "ctx", skipFrames |-> skipFrames, levels |-> {ErrorLevel}]

\* NewRuntimeContextHook(skipFrames)
NewRuntimeContextHook(skipFrames) ==
  [kind |-> "ctx", skipFrames |-> skipFrames, levels |-> CtxHookLevels]

\* logrus.New(): stderr, the text formatter, no hooks, InfoLevel
\* (asked keeps the name of the level last set through WithLevel or SetLevel)
LogrusNew ==
  [level |-> InfoLevel, formatter |-> "text", out |-> "stderr", data |-> {}, hooks |-> <<>>,
   asked |-> "info"]

\* the options of color_formatter.go the model applies
Options ==
  [op : {"WithLevel"}, arg : LevelNames]
    \cup [op : {"WithOutput", "WithNullOutput", "WithMultipleFields", "WithFormatter"}, arg : {"x"}]

Opt(op, arg) == [op |-> op, arg |-> arg]

\* a WithLevel that parses the level and leaves the logger's level as it is
WithLevel_NoSetLevel(l, level) ==
  LET parsedLevel == ParseLevel(level) IN
  IF parsedLevel = -1
    THEN [logger |-> l, err |-> TRUE]
    ELSE [logger |->
            [l EXCEPT !.asked = level,
                      !.hooks = IF parsedLevel \in {DebugLevel, TraceLevel}
                                  THEN Append(@, NewRuntimeContextHook(3))
                                  ELSE @],
          err |-> FALSE]

\* WithLevel(level) applied to logger l: [logger, err]
WithLevel(l, level) ==
  LET parsedLevel == ParseLevel(level) IN
  IF parsedLevel = -1
    THEN [logger |-> l, err |-> TRUE]
    ELSE [logger |->
            [l EXCEPT !.level = parsedLevel,
                      !.asked = level,
                      !.hooks = IF parsedLevel \in {DebugLevel, TraceLevel}
                                  THEN Append(@, NewRuntimeContextHook(3))
                                  ELSE @],
          err |-> FALSE]

\* one option applied to logger l: [logger, err]
ApplyOption(l, opt) ==
  CASE opt.op = "WithLevel" -> WithLevel(l, opt.arg)
    [] opt.op = "WithOutput" -> [logger |-> [l EXCEPT !.out = "buf"], err |-> FALSE]
    [] opt.op = "WithNullOutput" -> [logger |-> [l EXCEPT !.out = "discard"], err |-> FALSE]
    [] opt.op = "WithMultipleFields" -> [logger |-> [l EXCEPT !.data = @ \cup {"service"}], err |-> FALSE]
    [] opt.op = "WithFormatter" -> [logger |-> [l EXCEPT !.formatter = "custom"], err |-> FALSE]

\* a loop that goes on to the next option after one has failed
RECURSIVE ApplyFrom_KeepGoing(_, _, _)
ApplyFrom_KeepGoing(l, os, i) ==
  IF i > Len(os)
    THEN [logger |-> l, err |-> FALSE]
    ELSE [logger |-> ApplyFrom_KeepGoing(ApplyOption(l, os[i]).logger, os, i + 1).logger,
          err |-> ApplyOption(l, os[i]).err
                    \/ ApplyFrom_KeepGoing(ApplyOption(l, os[i]).logger, os, i + 1).err]

\* the loop of createNewLogger from option i on: stops at the first error
RECURSIVE ApplyFrom(_, _, _)
ApplyFrom(l, os, i) ==
  IF i > Len(os)
    THEN [logger |-> l, err |-> FALSE]
    ELSE LET r == ApplyOption(l, os[i]) IN
         IF r.err THEN [logger |-> r.logger, err |-> TRUE]
                  ELSE ApplyFrom(r.logger, os, i + 1)

\* createNewLogger(opts...): [logger, err]; on an error the caller gets nil
createNewLogger(os) == ApplyFrom(LogrusNew, os, 1)

(***************************************************************************)
(* The rotating file hook (rotating_file_hook.go) and the lumberjack       *)
(* logger it writes through.  Sizes are counted in units of which          *)
(* Megabyte make one megabyte; time is counted in ticks of the backup      *)
(* name's resolution, of which TicksPerDay make one day.                   *)
(***************************************************************************)
DefaultMaxSize == 100
DefaultMaxBackups == 3
DefaultMaxAge == 28

\* the scale of sizes: units in one megabyte
Megabyte == 2
\* the scale of time: ticks in one day
TicksPerDay == 2

DefaultFilename == "logs/app.log"
Paths == {DefaultFilename, "a.log"}

NilConfig == [nil |-> TRUE]

\* a *RotatingFileConfig that is not nil
Config(filename, maxSize, maxBackups, maxAge, compress, levels) ==
  [nil |-> FALSE, Filename |-> filename, MaxSize |-> maxSize, MaxBackups |-> maxBackups,
   MaxAge |-> maxAge, Compress |-> compress, Levels |-> levels]

\* cfg == nil becomes &RotatingFileConfig{}
ZeroConfig == Config("", 0, 0, 0, FALSE, <<>>)

\* a newRotatingFileHook that fills in the defaults for a nil cfg alone
newRotatingFileHook_NilOnly(cfg) ==
  LET c0 == IF cfg.nil
              THEN [nil |-> FALSE, Filename |-> DefaultFilename, MaxSize |-> DefaultMaxSize,
                    MaxBackups |-> DefaultMaxBackups, MaxAge |-> DefaultMaxAge,
                    Compress |-> FALSE, Levels |-> AllLevels]
              ELSE cfg
  IN [hook |-> [Filename |-> c0.Filename,
                MaxSize |-> c0.MaxSize,
                MaxBackups |-> c0.MaxBackups,
                MaxAge |-> c0.MaxAge,
                Compress |-> c0.Compress,
                levels |-> c0.Levels,
                file |-> FALSE, size |-> 0, millCh |-> FALSE, rotations |-> 0],
      err |-> FALSE]

\* a newRotatingFileHook that leaves cfg.MaxSize out of the lumberjack.Logger
newRotatingFileHook_IgnoreMaxSize(cfg) ==
  LET c0 == IF cfg.nil THEN ZeroConfig ELSE cfg
  IN [hook |-> [Filename |-> IF c0.Filename = "" THEN DefaultFilename ELSE c0.Filename,
                MaxSize |-> DefaultMaxSize,
                MaxBackups |-> IF c0.MaxBackups = 0 THEN DefaultMaxBackups ELSE c0.MaxBackups,
                MaxAge |-> IF c0.MaxAge = 0 THEN DefaultMaxAge ELSE c0.MaxAge,
                Compress |-> c0.Compress,
                levels |-> IF Len(c0.Levels) = 0 THEN AllLevels ELSE c0.Levels,
                file |-> FALSE, size |-> 0, millCh |-> FALSE, rotations |-> 0],
      err |-> FALSE]

\* newRotatingFileHook(cfg): the hook, with the lumberjack.Logger it owns still
\* closed; the error it returns is always nil
newRotatingFileHook(cfg) ==
  LET c0 == IF cfg.nil THEN ZeroConfig ELSE cfg
      c1 == IF c0.Filename = "" THEN [c0 EXCEPT !.Filename = DefaultFilename] ELSE c0
      c2 == IF c1.MaxSize = 0 THEN [c1 EXCEPT !.MaxSize = DefaultMaxSize] ELSE c1
      c3 == IF c2.MaxBackups = 0 THEN [c2 EXCEPT !.MaxBackups = DefaultMaxBackups] ELSE c2
      c4 == IF c3.MaxAge = 0 THEN [c3 EXCEPT !.MaxAge = DefaultMaxAge] ELSE c3
      c5 == IF Len(c4.Levels) = 0 THEN [c4 EXCEPT !.Levels = AllLevels] ELSE c4
  IN [hook |-> [Filename |-> c5.Filename, MaxSize |-> c5.MaxSize,
                MaxBackups |-> c5.MaxBackups, MaxAge |-> c5.MaxAge,
                Compress |-> c5.Compress, levels |-> c5.Levels,
                file |-> FALSE, size |-> 0, millCh |-> FALSE, rotations |-> 0],
      err |-> FALSE]

\* a gate whose minimum starts at the highest level value: true from the smallest
\* configured level value upwards
shouldLog_FromMinimum(h, level) ==
  Len(h.levels) = 0 \/ \E l \in Range(h.levels) : level >= l /\ \A m \in Range(h.levels) : l <= m

\* rotatingFileHook.shouldLog(level)
shouldLog(h, level) ==
  IF Len(h.levels) = 0
    THEN TRUE
    ELSE LET RECURSIVE MinFrom(_, _)
             \* the loop over h.levels: minLevel is lowered to l when l < minLevel
             MinFrom(i, minLevel) ==
               IF i > Len(h.levels) THEN minLevel
               ELSE MinFrom(i + 1, IF h.levels[i] < minLevel THEN h.levels[i] ELSE minLevel)
         IN level >= MinFrom(1, PanicLevel)

\* a Levels() that answers with every level
HookLevels_All(h) == Range(AllLevels)

\* Levels(): return h.levels
HookLevels(h) == Range(h.levels)

\* a log file that does not exist, with no backups beside it
NoFile ==
  [exists |-> FALSE, active |-> <<>>, backups |-> {}, lost |-> {}, aged |-> 0, replaced |-> 0]

\* the events with a unit in content
EventsIn(content) == {content[i][1] : i \in DOMAIN content}

\* the events with a unit in one of the backups bs
EventsInBackups(bs) == UNION {EventsIn(b.content) : b \in bs}

\* lumberjack: l.max(), the size in units at which the file is rotated
LjMax(h) == h.MaxSize * Megabyte

\* lumberjack openNew: an existing file is renamed to its backup name (the time at
\* the name's resolution; a backup already under that name is replaced) and an
\* empty file is created
LjOpenNew(h, f, t) ==
  LET same == {b \in f.backups : b.ts = t /\ ~b.gz}
      f1 == IF f.exists
              THEN [f EXCEPT !.backups = (@ \ same) \cup {[ts |-> t, gz |-> FALSE, content |-> f.active]},
                             !.lost = @ \cup EventsInBackups(same),
                             !.replaced = @ + Cardinality(same)]
              ELSE f
  IN [hook |-> [h EXCEPT !.file = TRUE, !.size = 0],
      disk |-> [f1 EXCEPT !.exists = TRUE, !.active = <<>>]]

\* lumberjack rotate: close, openNew, mill
LjRotate(h, f, t) ==
  LET r == LjOpenNew([h EXCEPT !.file = FALSE], f, t)
  IN [hook |-> [r.hook EXCEPT !.millCh = TRUE, !.rotations = @ + 1], disk |-> r.disk]

\* an openExistingOrNew that never appends to the file it finds
LjOpenExistingOrNew_AlwaysNew(h, f, writeLen, t) == LjOpenNew([h EXCEPT !.millCh = TRUE], f, t)

\* lumberjack openExistingOrNew(writeLen)
LjOpenExistingOrNew(h, f, writeLen, t) ==
  LET h1 == [h EXCEPT !.millCh = TRUE] IN
  IF ~f.exists THEN LjOpenNew(h1, f, t)
  ELSE IF Len(f.active) + writeLen >= LjMax(h1) THEN LjRotate(h1, f, t)
  ELSE [hook |-> [h1 EXCEPT !.file = TRUE, !.size = Len(f.active)], disk |-> f]

\* lumberjack Logger.Write(p), under its own mutex: [hook, disk, err]
LjWrite(h, f, line, t) ==
  LET writeLen == Len(line) IN
  IF writeLen > LjMax(h)
    THEN [hook |-> h, disk |-> f, err |-> TRUE]
    ELSE LET o == IF h.file THEN [hook |-> h, disk |-> f]
                            ELSE LjOpenExistingOrNew(h, f, writeLen, t)
             r == IF o.hook.size + writeLen > LjMax(o.hook)
                    THEN LjRotate(o.hook, o.disk, t)
                    ELSE o
         IN [hook |-> [r.hook EXCEPT !.size = @ + writeLen],
             disk |-> [r.disk EXCEPT !.active = @ \o line],
             err |-> FALSE]

\* lumberjack Logger.Close()
LjClose(h) == [h EXCEPT !.file = FALSE]

\* lumberjack millRunOnce: backups past the MaxBackups newest names and backups
\* older than MaxAge days are removed, the others compressed when Compress is set
LjMillRunOnce(h, f, t) ==
  LET names == {b.ts : b \in f.backups}
      newer(ts) == {n \in names : n > ts}
      byCount == IF h.MaxBackups > 0 /\ h.MaxBackups < Cardinality(f.backups)
                   THEN {b \in f.backups : Cardinality(newer(b.ts)) < h.MaxBackups}
                   ELSE f.backups
      cutoff == t - h.MaxAge * TicksPerDay
      byAge == IF h.MaxAge > 0 THEN {b \in byCount : ~(b.ts < cutoff)} ELSE byCount
      toGz == IF h.Compress THEN {b \in byAge : ~b.gz} ELSE {}
      replaced == {b \in byAge : b.gz /\ \E c \in toGz : c.ts = b.ts}
      kept == ((byAge \ toGz) \ replaced) \cup {[b EXCEPT !.gz = TRUE] : b \in toGz}
  IN [f EXCEPT !.backups = kept,
               !.lost = @ \cup EventsInBackups((f.backups \ byAge) \cup replaced),
               !.aged = @ + Cardinality(byCount \ byAge),
               !.replaced = @ + Cardinality(replaced)]

\* TextFormatter.Format(entry): the line of event e, n units long
Format(e, n) == [i \in 1..n |-> <<e, i>>]

(***************************************************************************)
(* Bounds of the model.                                                    *)
(***************************************************************************)
\* goroutines calling the package API
NumProcs == 2
\* createNewLogger calls in one run
MaxBuilds == 2
\* events fired at a rotating file hook in one run
MaxEvents == 3
\* the longest formatted line, in units
MaxLine == 3
\* the last tick of the clock
MaxClock == 3
\* rotating file hooks added in one run
MaxSinks == 1
\* hooks on one logger
MaxHooks == 2
\* leveled logging calls and direct Fire calls in one run
MaxCalls == 1

Procs == 1..NumProcs

\* the option lists a caller passes to NewLogger or NewSingletonLogger
OptLists ==
  { <<>>,
    <<Opt("WithLevel", "debug")>>,
    <<Opt("WithMultipleFields", "x"), Opt("WithLevel", "invalid"), Opt("WithNullOutput", "x")>> }

(***************************************************************************)
(* State of the package (logger.go).                                       *)
(***************************************************************************)
VARIABLES
  loggers,         \* the logger instances ever built, by address (1, 2, ...)
  Log,             \* the global Log pointer: an address, 0 for nil
  onceDone,        \* loggerOnce.done
  onceMu,          \* loggerOnce.m: 0 when free, else the goroutine holding it
  pc,              \* where each goroutine is in NewSingletonLogger
  opts,            \* the opts of each goroutine's running NewSingletonLogger call
  err,             \* the err variable of each goroutine's running call
  built,           \* createNewLogger calls so far
  history          \* what has been called and returned so far, for stating the properties

svars == <<loggers, Log, onceDone, onceMu, pc, opts, err, built, history>>

\* the rotating file hooks, their files and the goroutines firing at them
VARIABLES
  sinks,           \* the rotating file hooks built, each with its lumberjack state
  disk,            \* the log file and its backups at each path
  now,             \* the clock, in ticks
  mu,              \* rotatingFileHook.mu of each hook: 0 when free, else its holder
  fpc,             \* where each goroutine is in rotatingFileHook.Fire
  fev,             \* the event of each goroutine's running Fire, its error, and whether its Write reopened a closed file
  events,          \* the events fired so far: level, line length, how Fire ended
  workload         \* the levels and line lengths the callers log with

kvars == <<sinks, disk, now, mu, fpc, fev, events, workload>>

\* the logger's output and the record of its calls
VARIABLES
  out,             \* what the loggers have written to their outputs, oldest first
  last,            \* the last leveled logging call, for stating the properties
  alive,           \* FALSE once a Fatal call or a panic has ended the process
  local,           \* each goroutine's running package-level call: function, argument, locals
  caller           \* a runtimeContextHook.Fire: the call stack, skipFrames, the entry's Data

lvars == <<out, last, alive, local, caller>>

vars == <<svars, kvars, lvars>>

\* init(): Log wraps logrus.StandardLogger()
InitPackage ==
  /\ loggers = <<LogrusNew>>
  /\ Log = 1
  /\ onceDone = 0
  /\ onceMu = 0
  /\ pc = [p \in Procs |-> "idle"]
  /\ opts = [p \in Procs |-> <<>>]
  /\ err = [p \in Procs |-> FALSE]
  /\ built = 0
  /\ history = [reset |-> FALSE, newLogger |-> FALSE,
                initOK |-> FALSE, applied |-> 0,
                firstOK |-> -1, otherOK |-> FALSE, errAfterOK |-> FALSE,
                firstAny |-> -1, otherAny |-> FALSE, contended |-> FALSE,
                initialisedAtCall |-> [p \in Procs |-> FALSE],
                calls |-> 0,
                returned |-> [logger |-> 0, err |-> FALSE, opts |-> <<>>, built |-> LogrusNew]]

\* what NewLogger(os...) returns when createNewLogger returned r and a logger that
\* is kept gets address addr: nil, err or logger, nil (built keeps the object the
\* options were applied to, for stating the properties)
NewLoggerReturn(os, r, addr) ==
  [logger |-> IF r.err THEN 0 ELSE addr, err |-> r.err, opts |-> os, built |-> r.logger]

\* NewLogger(opts...): a fresh logger replaces the global one unless an option fails
NewLogger(p, os) ==
  /\ UNCHANGED <<kvars, lvars>>
  /\ alive
  /\ pc[p] = "idle"
  /\ built < MaxBuilds
  /\ LET r == createNewLogger(os) IN
       /\ built' = built + 1
       /\ IF r.err
            THEN UNCHANGED <<loggers, Log>>
            ELSE /\ loggers' = Append(loggers, r.logger)
                 /\ Log' = Len(loggers) + 1
  /\ history' = [history EXCEPT !.newLogger = TRUE,
                                !.returned = NewLoggerReturn(os, createNewLogger(os), Len(loggers) + 1)]
  /\ UNCHANGED <<onceDone, onceMu, pc, opts, err>>

\* NewSingletonLogger(opts...), entry: var err error
SingletonCall(p, os) ==
  /\ UNCHANGED <<kvars, lvars>>
  /\ pc[p] = "idle"
  /\ pc' = [pc EXCEPT ![p] = "do"]
  /\ opts' = [opts EXCEPT ![p] = os]
  /\ err' = [err EXCEPT ![p] = FALSE]
  /\ history' = [history EXCEPT !.initialisedAtCall[p] = (onceDone = 1)]
  /\ UNCHANGED <<loggers, Log, onceDone, onceMu, built>>

\* a Once that never sees itself done: the closure runs on every call
OnceNotDone_Always == TRUE

\* sync.Once: the load of o.done, in Do and again in doSlow
OnceNotDone == onceDone = 0

\* a Once whose slow path takes no lock
OnceMutexFree_NoLock == TRUE

\* sync.Once: o.m.Lock() succeeds when nobody holds o.m
OnceMutexFree == onceMu = 0

\* loggerOnce.Do, fast path: done already, or on to doSlow
OnceDo(p) ==
  /\ UNCHANGED <<kvars, lvars>>
  /\ pc[p] = "do"
  /\ pc' = [pc EXCEPT ![p] = IF OnceNotDone THEN "lock" ELSE "return"]
  /\ UNCHANGED <<loggers, Log, onceDone, onceMu, opts, err, built, history>>

\* doSlow: o.m.Lock()
OnceLock(p) ==
  /\ UNCHANGED <<kvars, lvars>>
  /\ pc[p] = "lock"
  /\ OnceMutexFree
  /\ onceMu' = p
  /\ pc' = [pc EXCEPT ![p] = "slow"]
  /\ UNCHANGED <<loggers, Log, onceDone, opts, err, built, history>>

\* doSlow under the lock: if o.done == 0, run the closure of NewSingletonLogger
OnceSlow(p) ==
  /\ UNCHANGED <<kvars, lvars>>
  /\ pc[p] = "slow"
  /\ IF OnceNotDone
       THEN /\ built < MaxBuilds
            /\ LET r == createNewLogger(opts[p]) IN
                 /\ built' = built + 1
                 /\ err' = [err EXCEPT ![p] = r.err]
                 /\ IF r.err
                      THEN UNCHANGED <<loggers, Log>>
                      ELSE /\ loggers' = Append(loggers, r.logger)
                           /\ Log' = Len(loggers) + 1
                 /\ history' = [history EXCEPT !.applied = @ + 1,
                                               !.initOK = ~r.err]
            /\ pc' = [pc EXCEPT ![p] = "store"]
       ELSE /\ pc' = [pc EXCEPT ![p] = "unlock"]
            /\ history' = [history EXCEPT !.contended = TRUE]
            /\ UNCHANGED <<loggers, Log, err, built>>
  /\ UNCHANGED <<onceDone, onceMu, opts>>

\* doSlow: defer atomic.StoreUint32(&o.done, 1)
OnceStore(p) ==
  /\ UNCHANGED <<kvars, lvars>>
  /\ pc[p] = "store"
  /\ onceDone' = 1
  /\ pc' = [pc EXCEPT ![p] = "unlock"]
  /\ UNCHANGED <<loggers, Log, onceMu, opts, err, built, history>>

\* doSlow: defer o.m.Unlock()
OnceUnlock(p) ==
  /\ UNCHANGED <<kvars, lvars>>
  /\ pc[p] = "unlock"
  /\ onceMu' = 0
  /\ pc' = [pc EXCEPT ![p] = "return"]
  /\ UNCHANGED <<loggers, Log, onceDone, opts, err, built, history>>

\* the logger NewSingletonLogger hands back: return Log, err
SingletonResult(p) == Log

\* return Log, err (the call's locals end with it)
SingletonReturn(p) ==
  /\ UNCHANGED <<kvars, lvars>>
  /\ pc[p] = "return"
  /\ history' = [history EXCEPT
       !.firstOK = IF ~err[p] /\ @ = -1 THEN SingletonResult(p) ELSE @,
       !.otherOK = @ \/ (~err[p] /\ history.firstOK # -1 /\ SingletonResult(p) # history.firstOK),
       !.errAfterOK = @ \/ (err[p] /\ history.initOK),
       !.firstAny = IF @ = -1 THEN SingletonResult(p) ELSE @,
       !.otherAny = @ \/ (history.firstAny # -1 /\ SingletonResult(p) # history.firstAny),
       !.initialisedAtCall[p] = FALSE]
  /\ pc' = [pc EXCEPT ![p] = "idle"]
  /\ opts' = [opts EXCEPT ![p] = <<>>]
  /\ err' = [err EXCEPT ![p] = FALSE]
  /\ UNCHANGED <<loggers, Log, onceDone, onceMu, built>>

\* ResetLogger(), called (as the tests do) while no NewSingletonLogger call is running
ResetLogger(p) ==
  /\ UNCHANGED <<kvars, lvars>>
  /\ \A q \in Procs : pc[q] = "idle"
  /\ Log' = 0
  /\ onceDone' = 0
  /\ onceMu' = 0
  /\ history' = [history EXCEPT !.reset = TRUE]
  /\ UNCHANGED <<loggers, pc, opts, err, built>>

(***************************************************************************)
(* Goroutines firing events at one rotating file hook.                     *)
(***************************************************************************)
NoEvent == [id |-> 0, err |-> FALSE, reopened |-> FALSE]

\* a goroutine that is in no package-level call
NoCall == [fn |-> "none", arg |-> "", logger |-> 0, stage |-> 0]

\* no runtimeContextHook is firing
NoCaller == [step |-> "none"]

\* no logging call has been made
NoLogs ==
  /\ out = <<>>
  /\ last = [called |-> FALSE]
  /\ alive = TRUE
  /\ local = [p \in Procs |-> NoCall]
  /\ caller = NoCaller

\* no hook has been built
NoSinks ==
  /\ sinks = <<>>
  /\ disk = [path \in Paths |-> NoFile]
  /\ now = 0
  /\ mu = <<>>
  /\ fpc = [g \in Procs |-> "idle"]
  /\ fev = [g \in Procs |-> NoEvent]
  /\ events = <<>>
  /\ workload = [levels |-> {}, sizes |-> {}, cfg |-> NilConfig]


\* a hook built by newRotatingFileHook(cfg) on an empty directory
InitSink(cfg, levels, sizes) ==
  /\ sinks = <<newRotatingFileHook(cfg).hook>>
  /\ disk = [path \in Paths |-> NoFile]
  /\ now = 0
  /\ mu = <<0>>
  /\ fpc = [g \in Procs |-> "idle"]
  /\ fev = [g \in Procs |-> NoEvent]
  /\ events = <<>>
  /\ workload = [levels |-> levels, sizes |-> sizes, cfg |-> cfg]

\* Fire(entry), entry: if !h.shouldLog(entry.Level) { return nil }
FireBegin(g, level, n) ==
  /\ UNCHANGED <<svars, lvars>>
  /\ fpc[g] = "idle"
  /\ Len(events) < MaxEvents
  /\ IF shouldLog(sinks[1], level)
       THEN /\ events' = Append(events, [level |-> level, n |-> n, res |-> "pending"])
            /\ fev' = [fev EXCEPT ![g] = [id |-> Len(events) + 1, err |-> FALSE, reopened |-> FALSE]]
            /\ fpc' = [fpc EXCEPT ![g] = "lock"]
       ELSE /\ events' = Append(events, [level |-> level, n |-> n, res |-> "skipped"])
            /\ UNCHANGED <<fev, fpc>>
  /\ UNCHANGED <<sinks, disk, now, mu, workload>>

\* h.mu.Lock()
FireLock(g) ==
  /\ UNCHANGED <<svars, lvars>>
  /\ fpc[g] = "lock"
  /\ mu[1] = 0
  /\ mu' = [mu EXCEPT ![1] = g]
  /\ fpc' = [fpc EXCEPT ![g] = "write"]
  /\ UNCHANGED <<sinks, disk, now, fev, events, workload>>

\* a Fire that hands Write the line short of its last unit
FireLine_Short(e, n) == Format(e, n - 1)

\* what Fire hands to h.config.Write: the line h.formatter.Format(entry) returned
FireLine(e, n) == Format(e, n)

\* line, err := h.formatter.Format(entry); _, err = h.config.Write(line)
FireWrite(g) ==
  /\ UNCHANGED <<svars, lvars>>
  /\ fpc[g] = "write"
  /\ LET e == fev[g].id
         h == sinks[1]
         r == LjWrite(h, disk[h.Filename], FireLine(e, events[e].n), now)
     IN /\ sinks' = [sinks EXCEPT ![1] = r.hook]
        /\ disk' = [disk EXCEPT ![h.Filename] = r.disk]
        /\ fev' = [fev EXCEPT ![g].err = r.err,
                              ![g].reopened = ~h.file /\ disk[h.Filename].exists]
  /\ fpc' = [fpc EXCEPT ![g] = "unlock"]
  /\ UNCHANGED <<now, mu, events, workload>>

\* a Fire that drops the error of Write
FireResult_Swallow(failed) == "ok"

\* how Fire ends: return err
FireResult(failed) == IF failed THEN "err" ELSE "ok"

\* an Unlock written after the error return: skipped when Fire fails
UnlockDeferred_SkippedOnError(g, failed) == IF failed THEN g ELSE 0

\* the holder of h.mu once the deferred h.mu.Unlock() has run: nobody, on every path
UnlockDeferred(g, failed) == 0

\* defer h.mu.Unlock(); return err
FireUnlock(g) ==
  /\ UNCHANGED <<svars, lvars>>
  /\ fpc[g] = "unlock"
  /\ mu' = [mu EXCEPT ![1] = UnlockDeferred(g, fev[g].err)]
  /\ events' = [events EXCEPT ![fev[g].id].res = FireResult(fev[g].err)]
  /\ fev' = [fev EXCEPT ![g] = NoEvent]
  /\ fpc' = [fpc EXCEPT ![g] = "idle"]
  /\ UNCHANGED <<sinks, disk, now, workload>>

\* Close(): h.config.Close()
Close(g) ==
  /\ UNCHANGED <<svars, lvars>>
  /\ fpc[g] = "idle"
  /\ sinks[1].file
  /\ sinks' = [sinks EXCEPT ![1] = LjClose(@)]
  /\ UNCHANGED <<disk, now, mu, fpc, fev, events, workload>>

\* lumberjack's mill goroutine takes the pending request and prunes the backups
Mill(i) ==
  /\ UNCHANGED <<svars, lvars>>
  /\ sinks[i].millCh
  /\ sinks' = [sinks EXCEPT ![i].millCh = FALSE]
  /\ disk' = [disk EXCEPT ![sinks[i].Filename] = LjMillRunOnce(sinks[i], @, now)]
  /\ UNCHANGED <<now, mu, fpc, fev, events, workload>>

\* time passes
Tick ==
  /\ UNCHANGED <<svars, lvars>>
  /\ now < MaxClock
  /\ now' = now + 1
  /\ UNCHANGED <<sinks, disk, mu, fpc, fev, events, workload>>

NextSink ==
  \/ \E g \in Procs :
       \/ \E level \in workload.levels, n \in workload.sizes : FireBegin(g, level, n)
       \/ FireLock(g)
       \/ FireWrite(g)
       \/ FireUnlock(g)
       \/ Close(g)
  \/ Mill(1)
  \/ Tick

(***************************************************************************)
(* The package-level logger used by one goroutine: SetLevel,               *)
(* AddFileOutputHook, the leveled logging functions, and Fire called on a  *)
(* hook directly.                                                          *)
(***************************************************************************)

\* logrus Logger.IsLevelEnabled(level): logger.level() >= level
IsLevelEnabled(l, level) == l.level >= level

\* a dispatcher that fires the hooks of a level last registered first
HooksAt_Reversed(l, level) ==
  [i \in 1..Len(SelectSeq(l.hooks, LAMBDA h : level \in h.levels)) |->
     SelectSeq(l.hooks, LAMBDA h : level \in h.levels)
       [Len(SelectSeq(l.hooks, LAMBDA h : level \in h.levels)) + 1 - i]]

\* a dispatcher that fires every hook of l, whatever the level
HooksAt_All(l, level) == l.hooks

\* logrus LevelHooks: the hooks of l registered for level, in registration order
HooksAt(l, level) == SelectSeq(l.hooks, LAMBDA h : level \in h.levels)

\* what Fire returns after h.config.Write returned r: [hook, disk, err, wrote]
FireReturn(r) == [hook |-> r.hook, disk |-> r.disk, err |-> r.err, wrote |-> ~r.err]

\* rotatingFileHook.Fire(entry) from its first line to its return
Fire(h, f, e, level, n, t) ==
  IF ~shouldLog(h, level)
    THEN [hook |-> h, disk |-> f, err |-> FALSE, wrote |-> FALSE]
    ELSE FireReturn(LjWrite(h, f, FireLine(e, n), t))

\* nothing fired yet: the hooks' files as they are
NothingFired ==
  [sinks |-> sinks, disk |-> disk, fired |-> <<>>, resolved |-> FALSE, wrote |-> {}, err |-> FALSE,
   lines |-> {}]

\* a runtimeContextHook.Fire that resolves nothing and sets no field
CtxFired_Unresolved(st, h) == [st EXCEPT !.fired = Append(@, h)]

\* runtimeContextHook.Fire(entry): the caller is resolved, the error is nil
CtxFired(st, h) == [st EXCEPT !.fired = Append(@, h), !.resolved = TRUE]

\* the line h.formatter.Format(entry) made for a sink: the keys hooks fired before
\* it have put into entry.Data are printed in it
LineOf(sink, resolved) ==
  [sink |-> sink, fields |-> IF resolved THEN {"func", "src"} ELSE {}]

\* the rotating file hook h has fired and returned r
FileFired(st, h, r) ==
  [st EXCEPT !.sinks[h.sink] = r.hook,
             !.disk[r.hook.Filename] = r.disk,
             !.fired = Append(@, h),
             !.wrote = IF r.wrote THEN @ \cup {h.sink} ELSE @,
             !.lines = IF r.wrote THEN @ \cup {LineOf(h.sink, st.resolved)} ELSE @,
             !.err = r.err]

\* logrus LevelHooks.Fire: the hooks hs[i], hs[i+1], ... fired in order on event ev,
\* returning at the first error; st carries the hooks' files and what has fired
RECURSIVE FireHooks(_, _, _, _)
RECURSIVE FireNext(_, _, _, _)
FireHooks(hs, i, st, ev) ==
  IF i > Len(hs) THEN st
  ELSE IF hs[i].kind = "ctx"
    THEN FireHooks(hs, i + 1, CtxFired(st, hs[i]), ev)
    ELSE FireNext(hs, i,
                  FileFired(st, hs[i],
                            Fire(st.sinks[hs[i].sink], st.disk[st.sinks[hs[i].sink].Filename],
                                 ev.id, ev.level, ev.n, now)),
                  ev)

\* if err := hook.Fire(entry); err != nil { return err }
FireNext(hs, i, st, ev) == IF st.err THEN st ELSE FireHooks(hs, i + 1, st, ev)

\* SetLevel(level)
SetLevel(level) ==
  /\ alive
  /\ Log # 0
  /\ LET parsedLevel == ParseLevel(level)
         hooked == parsedLevel \in {DebugLevel, TraceLevel}
     IN IF parsedLevel = -1
          THEN /\ alive' = FALSE
               /\ UNCHANGED loggers
          ELSE /\ hooked => Len(loggers[Log].hooks) < MaxHooks
               /\ loggers' = [loggers EXCEPT ![Log] =
                    [@ EXCEPT !.level = parsedLevel,
                              !.asked = level,
                              !.formatter = IF hooked THEN "color" ELSE @,
                              !.hooks = IF hooked THEN Append(@, NewRuntimeContextHook(3)) ELSE @]]
               /\ UNCHANGED alive
  /\ UNCHANGED <<Log, onceDone, onceMu, pc, opts, err, built, history>>
  /\ UNCHANGED <<kvars, caller, out, last, local>>

\* the body of AddFileOutputHook(filename, cfg, levels...)
AddFileOutputHookBody(filename, cfg, levels) ==
  /\ LET c0 == IF cfg.nil THEN ZeroConfig ELSE cfg
         c1 == [c0 EXCEPT !.Filename = IF @ = "" THEN filename ELSE @, !.Levels = levels]
         r == newRotatingFileHook(c1)
     IN /\ ~r.err
        /\ sinks' = Append(sinks, r.hook)
        /\ mu' = Append(mu, 0)
        /\ loggers' = [loggers EXCEPT ![Log].hooks =
               Append(@, [kind |-> "file", sink |-> Len(sinks) + 1, levels |-> HookLevels(r.hook)])]
  /\ UNCHANGED <<Log, onceDone, onceMu, pc, opts, err, built, history>>
  /\ UNCHANGED <<disk, now, fpc, fev, events, workload>>
  /\ UNCHANGED lvars

\* AddFileOutputHook(filename, cfg, levels...)
AddFileOutputHook(filename, cfg, levels) ==
  /\ alive
  /\ Log # 0
  /\ Len(sinks) < MaxSinks
  /\ Len(loggers[Log].hooks) < MaxHooks
  /\ AddFileOutputHookBody(filename, cfg, levels)

\* entry.Data when the entry is written: the logger's fields, and "func" and "src"
\* once a runtimeContextHook has set them
EntryData(l, resolved) == l.data \cup (IF resolved THEN {"func", "src"} ELSE {})

\* Trace, Debug, Info, Warn, Error, Fatal, Panic (and their f forms) on the global
\* Log: logrus Entry.Log gates on IsLevelEnabled, then fires the hooks, then writes
\* the formatted entry to the output; Fatal exits and Panic panics afterwards
LogCallDone(level, n, l, enabled, st) ==
  /\ sinks' = st.sinks
  /\ disk' = st.disk
  /\ out' = IF enabled
              THEN Append(out, [id |-> Len(events) + 1, to |-> l.out,
                                fields |-> EntryData(l, st.resolved)])
              ELSE out
  /\ events' = Append(events,
       [level |-> level, n |-> n, via |-> "logger", at |-> 0, wrote |-> st.wrote,
        lines |-> st.lines,
        res |-> IF st.err THEN "err" ELSE IF st.wrote # {} THEN "ok" ELSE "none"])
  /\ last' = [called |-> TRUE, id |-> Len(events) + 1, level |-> level,
              asked |-> l.asked, hooks |-> l.hooks,
              written |-> enabled, fired |-> st.fired, resolved |-> st.resolved,
              failed |-> st.err]
  /\ alive' = ~(level = FatalLevel \/ (level = PanicLevel /\ enabled))
  /\ UNCHANGED <<local, caller>>

\* the hooks Entry.log fires for an event of this level, all of them run
LogCallHooks(level, n) ==
  FireHooks(HooksAt(loggers[Log], level), 1, NothingFired,
            [id |-> Len(events) + 1, level |-> level, n |-> n])

LogCall(level, n) ==
  /\ alive
  /\ Log # 0
  /\ Len(events) < MaxCalls
  /\ IF IsLevelEnabled(loggers[Log], level)
       THEN LogCallDone(level, n, loggers[Log], TRUE, LogCallHooks(level, n))
       ELSE LogCallDone(level, n, loggers[Log], FALSE, NothingFired)
  /\ UNCHANGED svars
  /\ UNCHANGED <<now, mu, fpc, fev, workload>>

DirectFireDone(i, level, n, r) ==
  /\ sinks' = [sinks EXCEPT ![i] = r.hook]
  /\ disk' = [disk EXCEPT ![r.hook.Filename] = r.disk]
  /\ events' = Append(events,
       [level |-> level, n |-> n, via |-> "fire", at |-> i, wrote |-> IF r.wrote THEN {i} ELSE {},
        lines |-> IF r.wrote THEN {LineOf(i, FALSE)} ELSE {},
        res |-> IF r.err THEN "err" ELSE IF r.wrote THEN "ok" ELSE "none"])

\* hook.Fire(entry) called on hook i directly, with an entry of any level
DirectFire(i, level, n) ==
  /\ alive
  /\ Len(events) < MaxCalls
  /\ DirectFireDone(i, level, n,
                    Fire(sinks[i], disk[sinks[i].Filename], Len(events) + 1, level, n, now))
  /\ UNCHANGED svars
  /\ UNCHANGED <<now, mu, fpc, fev, workload>>
  /\ UNCHANGED lvars

\* the level sets a hook is configured with
LevelLists ==
  {<<>>, <<ErrorLevel>>, <<WarnLevel, ErrorLevel>>, <<InfoLevel>>, <<TraceLevel, PanicLevel>>}

\* hooks on files of one or two megabytes, fired with lines of every length
InitRotate ==
  /\ \E maxSize \in 1..2, maxBackups \in 0..2, maxAge \in 0..1 :
       InitSink(Config("a.log", maxSize, maxBackups, maxAge, FALSE, <<>>), {InfoLevel}, 1..MaxLine)
  /\ InitPackage
  /\ NoLogs

SpecRotate == InitRotate /\ [][NextSink]_vars

\* the option lists the single goroutine builds loggers with
LoggerOptLists ==
  OptLists \cup {<<Opt("WithLevel", name)>> : name \in {"panic", "error", "warning", "trace"}}

\* the program builds its logger before it uses the package
BuildFirst(os) ==
  /\ loggers = <<LogrusNew>>
  /\ events = <<>>
  /\ NewLogger(1, os)

NextLogger ==
  \/ \E os \in LoggerOptLists : BuildFirst(os)
  \/ \E level \in LevelNames : SetLevel(level)
  \/ \E levels \in LevelLists : AddFileOutputHook("a.log", NilConfig, levels)
  \/ \E level \in workload.levels, n \in workload.sizes : LogCall(level, n)
  \/ \E i \in 1..Len(sinks), level \in workload.levels, n \in workload.sizes :
       DirectFire(i, level, n)

\* the package as init() leaves it, no hook built, nothing logged
InitLogger ==
  /\ InitPackage
  /\ sinks = <<>>
  /\ disk = [path \in Paths |-> NoFile]
  /\ now = 0
  /\ mu = <<>>
  /\ fpc = [g \in Procs |-> "idle"]
  /\ fev = [g \in Procs |-> NoEvent]
  /\ events = <<>>
  /\ workload = [levels |-> Levels, sizes |-> {1}, cfg |-> NilConfig]
  /\ NoLogs

SpecLogger == InitLogger /\ [][NextLogger]_vars

(***************************************************************************)
(* A hook built from any configuration and fired once.                     *)
(***************************************************************************)

\* the configurations a caller builds a hook from: nil, or each field zero or set
Configs ==
  {NilConfig} \cup
  {Config(filename, maxSize, maxBackups, maxAge, compress, levels) :
     filename \in {"", "a.log"}, maxSize \in {0, 1, 2}, maxBackups \in {-1, 0, 2},
     maxAge \in {-1, 0, 1}, compress \in BOOLEAN, levels \in LevelLists}

\* hook, err := newRotatingFileHook(cfg)
NewHook ==
  /\ alive
  /\ sinks = <<>>
  /\ sinks' = <<newRotatingFileHook(workload.cfg).hook>>
  /\ mu' = <<0>>
  /\ last' = [called |-> FALSE, err |-> newRotatingFileHook(workload.cfg).err]
  /\ UNCHANGED svars
  /\ UNCHANGED <<disk, now, fpc, fev, events, workload>>
  /\ UNCHANGED <<out, alive, local, caller>>

NextConfig ==
  \/ NewHook
  \/ \E i \in 1..Len(sinks), level \in workload.levels, n \in workload.sizes :
       DirectFire(i, level, n)

\* a caller holding a configuration, before it builds the hook
InitConfig ==
  /\ InitPackage
  /\ sinks = <<>>
  /\ disk = [path \in Paths |-> NoFile]
  /\ now = 0
  /\ mu = <<>>
  /\ fpc = [g \in Procs |-> "idle"]
  /\ fev = [g \in Procs |-> NoEvent]
  /\ events = <<>>
  /\ \E cfg \in Configs : workload = [levels |-> {InfoLevel, ErrorLevel}, sizes |-> {1}, cfg |-> cfg]
  /\ NoLogs

SpecConfig == InitConfig /\ [][NextConfig]_vars

NextPackage ==
  \E p \in Procs :
    \/ \E os \in OptLists : NewLogger(p, os)
    \/ \E os \in OptLists : SingletonCall(p, os)
    \/ OnceDo(p)
    \/ OnceLock(p)
    \/ OnceSlow(p)
    \/ OnceStore(p)
    \/ OnceUnlock(p)
    \/ SingletonReturn(p)
    \/ ResetLogger(p)

\* the package under concurrent callers
InitSingleton ==
  /\ InitPackage
  /\ NoSinks
  /\ NoLogs

SpecPackage == InitSingleton /\ [][NextPackage]_vars

(***************************************************************************)
(* The rotating file hook under concurrent callers.                        *)
(***************************************************************************)

\* the contents of the files of the hook: the active file and every backup
FilesOf(path) ==
  {[kind |-> "backup", ts |-> b.ts, gz |-> b.gz, content |-> b.content] : b \in disk[path].backups}
    \cup (IF disk[path].exists
            THEN {[kind |-> "active", ts |-> 0, gz |-> FALSE, content |-> disk[path].active]}
            ELSE {})

\* the line of event e stands whole at some offset of content
WholeIn(content, e, n) ==
  \E k \in 0..(Len(content) - n) : \A i \in 1..n : content[k + i] = <<e, i>>

\* content is whole lines one after another: every unit <<e, i>> sits i - 1 places
\* after the first unit of a whole line of e
OnlyWholeLines(content) ==
  \A j \in DOMAIN content :
    LET e == content[j][1]
        i == content[j][2]
        n == events[e].n
    IN /\ j - i + n <= Len(content)
       /\ j - i >= 0
       /\ \A m \in 1..n : content[j - i + m] = <<e, m>>

\* the files of the hook that hold a unit of event e
FilesHolding(path, e) == {f \in FilesOf(path) : e \in EventsIn(f.content)}

\* the events whose Fire returned no error
Written == {e \in DOMAIN events : events[e].res = "ok"}

RECURSIVE SumOfLines(_)
SumOfLines(es) ==
  IF es = {} THEN 0
  ELSE LET e == CHOOSE x \in es : TRUE IN events[e].n + SumOfLines(es \ {e})

ThePath == sinks[1].Filename

\* C4 as stated: every accepted event's line stands whole in one of the files
C4_NoEventMissing ==
  \A e \in Written : \E f \in FilesOf(ThePath) : WholeIn(f.content, e, events[e].n)

\* C4, amended: every file of the hook is whole lines one after another, and every
\* event whose Fire returned no error stands whole in one of the files unless
\* retention has removed the backup that held it.
C4_WholeLines ==
  /\ \A f \in FilesOf(ThePath) : OnlyWholeLines(f.content)
  /\ \A e \in Written \ disk[ThePath].lost :
       \E f \in FilesOf(ThePath) : WholeIn(f.content, e, events[e].n)

\* C4 witness: goroutine 1 holds the mutex of the hook and has written its line of
\* two units whole behind an earlier line, while goroutine 2 waits in Fire for the
\* mutex.
C4_Witness ==
  /\ fpc[1] = "unlock" /\ mu[1] = 1
  /\ fpc[2] = "lock"
  /\ ~fev[1].err
  /\ events[fev[1].id].n = 2
  /\ WholeIn(disk[ThePath].active, fev[1].id, 2)
  /\ Len(disk[ThePath].active) > 2

\* C5 as stated: every accepted event is in exactly one file, whatever the number
\* of rotations and maxBackups
C5_ExactlyOneFile ==
  \A e \in Written : Cardinality(FilesHolding(ThePath, e)) = 1

\* C5, amended: an event whose Fire returned no error is never in two files, and
\* is in exactly one as long as retention has not removed the backup that held it.
C5_AtMostOneFile ==
  \A e \in DOMAIN events :
    /\ Cardinality(FilesHolding(ThePath, e)) <= 1
    /\ (e \in Written \ disk[ThePath].lost) => Cardinality(FilesHolding(ThePath, e)) = 1
    /\ events[e].res \in {"err", "skipped"} => FilesHolding(ThePath, e) = {}

\* C5 witness: after two rotations the three written events are in three files.
C5_Witness ==
  /\ sinks[1].rotations = 2
  /\ Written = {1, 2, 3}
  /\ disk[ThePath].lost = {}
  /\ Cardinality(disk[ThePath].backups) = 2
  /\ \A e \in Written : \E f \in FilesOf(ThePath) : EventsIn(f.content) = {e}

\* the MaxBackups the caller asked for, with its default
AskedMaxBackups ==
  IF workload.cfg.nil \/ workload.cfg.MaxBackups = 0
    THEN DefaultMaxBackups ELSE workload.cfg.MaxBackups

\* the MaxSize the caller asked for, with its default, in units
AskedMax ==
  (IF workload.cfg.nil \/ workload.cfg.MaxSize = 0
     THEN DefaultMaxSize ELSE workload.cfg.MaxSize) * Megabyte

Min(a, b) == IF a < b THEN a ELSE b

\* C6 as stated: once the pruning has run after writes of more than the max size,
\* there is a backup beside the active file and the backups number
\* min(rotations, maxBackups)
C6_BackupsEqualMin ==
  (~sinks[1].millCh /\ SumOfLines(Written) > AskedMax) =>
    /\ Cardinality(disk[ThePath].backups) >= 1
    /\ Cardinality(disk[ThePath].backups) = Min(sinks[1].rotations, AskedMaxBackups)

\* C6, amended: once the pruning has run, the backups number at most
\* min(rotations, maxBackups), and exactly that when no backup was removed for its
\* age and none was replaced by a backup of the same timestamp; writes of more than
\* the max size have rotated the file.
C6_BackupsAtMostMin ==
  /\ SumOfLines(Written) > AskedMax => sinks[1].rotations >= 1
  /\ ~sinks[1].millCh =>
       /\ Cardinality(disk[ThePath].backups) <= Min(sinks[1].rotations, AskedMaxBackups)
       /\ (disk[ThePath].aged = 0 /\ disk[ThePath].replaced = 0) =>
            Cardinality(disk[ThePath].backups) = Min(sinks[1].rotations, AskedMaxBackups)

\* C6 witness: two rotations under maxBackups = 1 and the pruning has left one
\* backup beside the active file.
C6_Witness ==
  /\ ~sinks[1].millCh
  /\ AskedMaxBackups = 1
  /\ sinks[1].rotations = 2
  /\ disk[ThePath].aged = 0 /\ disk[ThePath].replaced = 0
  /\ Cardinality(disk[ThePath].backups) = 1
  /\ disk[ThePath].exists
  /\ SumOfLines(Written) > AskedMax

(***************************************************************************)
(* The level threshold of the logger and the levels of the hooks.          *)
(***************************************************************************)

\* the events the loggers have written to their outputs
InOut == {out[i].id : i \in DOMAIN out}

\* the events with a unit in a log file or a backup, at any path
InFiles ==
  UNION {EventsIn(disk[path].active) \cup EventsInBackups(disk[path].backups) : path \in Paths}

LeastSevere(h) == CHOOSE l \in Range(h.levels) : \A m \in Range(h.levels) : m <= l

\* C2 as stated: a rotating file hook writes an event exactly when its level is at
\* least as severe as the least severe level the hook is configured with, whether
\* Fire is called on the hook or the event is logged through a logger that has the
\* hook
C2_AcceptsBySeverity ==
  /\ \A e \in DOMAIN events :
       events[e].via = "fire" =>
         ((events[e].wrote # {}) <=> (events[e].level <= LeastSevere(sinks[events[e].at])))
  /\ last.called =>
       \A j \in DOMAIN last.hooks :
         (last.hooks[j].kind = "file" /\ last.written /\ ~last.failed) =>
           ((last.hooks[j].sink \in events[last.id].wrote)
              <=> (last.level <= LeastSevere(sinks[last.hooks[j].sink])))

\* C3: an event logged through a logger at a level less severe than every level of
\* a rotating file hook is not written by that hook, and a log file exists only
\* once a hook of that path has written an event.
C3_BelowHookLevelsNotWritten ==
  /\ \A e \in DOMAIN events : \A i \in DOMAIN sinks :
       (/\ events[e].via = "logger"
        /\ \A l \in Range(sinks[i].levels) : events[e].level > l)
         => i \notin events[e].wrote
  /\ \A path \in Paths :
       disk[path].exists =>
         \E e \in DOMAIN events : \E i \in events[e].wrote : sinks[i].Filename = path

\* C3 witness: a Warn call went to the output of a logger that has a rotating file
\* hook for Error alone, and the file of the hook does not exist.
C3_Witness ==
  /\ last.called
  /\ last.level = WarnLevel
  /\ last.written
  /\ \E j \in DOMAIN last.hooks :
       /\ last.hooks[j].kind = "file"
       /\ sinks[last.hooks[j].sink].levels = <<ErrorLevel>>
       /\ ~disk[sinks[last.hooks[j].sink].Filename].exists

(***************************************************************************)
(* The defaults of newRotatingFileHook.                                    *)
(***************************************************************************)

\* C7: the hook newRotatingFileHook builds has, field by field, the caller's value
\* when it is not zero and otherwise "logs/app.log", 100 megabytes, 3 backups,
\* 28 days and every level; a nil config gives all the defaults; the error is nil.
C7_DefaultsPerField ==
  sinks # <<>> =>
    /\ ~last.err
    /\ sinks[1].Filename =
         IF workload.cfg.nil \/ workload.cfg.Filename = "" THEN "logs/app.log"
         ELSE workload.cfg.Filename
    /\ sinks[1].MaxSize =
         IF workload.cfg.nil \/ workload.cfg.MaxSize = 0 THEN 100 ELSE workload.cfg.MaxSize
    /\ sinks[1].MaxBackups =
         IF workload.cfg.nil \/ workload.cfg.MaxBackups = 0 THEN 3 ELSE workload.cfg.MaxBackups
    /\ sinks[1].MaxAge =
         IF workload.cfg.nil \/ workload.cfg.MaxAge = 0 THEN 28 ELSE workload.cfg.MaxAge
    /\ sinks[1].levels =
         IF workload.cfg.nil \/ workload.cfg.Levels = <<>> THEN <<0, 1, 2, 3, 4, 5, 6>>
         ELSE workload.cfg.Levels
    /\ sinks[1].Compress = (~workload.cfg.nil /\ workload.cfg.Compress)
    /\ \A path \in Paths : disk[path].exists => path = sinks[1].Filename

\* C7 witness: a config with MaxSize and Levels set and the other fields zero gave a
\* hook with MaxSize and Levels as set, 3 backups and 28 days, and its first event
\* made the file logs/app.log.
C7_Witness ==
  /\ sinks # <<>>
  /\ ~workload.cfg.nil
  /\ workload.cfg.Filename = "" /\ workload.cfg.MaxSize = 2
  /\ workload.cfg.MaxBackups = 0 /\ workload.cfg.MaxAge = 0
  /\ workload.cfg.Levels = <<ErrorLevel>>
  /\ sinks[1].MaxSize = 2 /\ sinks[1].MaxBackups = 3 /\ sinks[1].MaxAge = 28
  /\ sinks[1].levels = <<ErrorLevel>>
  /\ disk["logs/app.log"].exists

(***************************************************************************)
(* The singleton constructor.                                              *)
(***************************************************************************)

\* C8: while ResetLogger has not been called, every NewSingletonLogger call that
\* returned no error returned the instance the first such call returned.
C8_SameInstanceUnlessReset ==
  ~history.reset => ~history.otherOK

\* C9: with goroutines calling only NewSingletonLogger, the closure (construction
\* and option application) has run at most once, every call has returned the same
\* instance, and no call has returned an error after a successful initialisation.
C9_ConcurrentSingleton ==
  (~history.reset /\ ~history.newLogger) =>
    /\ history.applied <= 1
    /\ built <= 1
    /\ ~history.otherAny
    /\ ~history.errAfterOK

\* C9 witness: a goroutine raced the initialiser into doSlow, found the Once done,
\* and the calls of a successful initialisation have returned.
C9_Witness ==
  /\ ~history.reset /\ ~history.newLogger
  /\ history.contended
  /\ history.initOK
  /\ history.firstAny = 2
  /\ \A p \in Procs : pc[p] = "idle"

\* C10: every step of a NewSingletonLogger call that began after the Once was done
\* leaves every logger instance (threshold, formatter, output, fields, hooks) and
\* the global pointer as they were.
C10_LaterCallAppliesNothing ==
  [][\A p \in Procs :
       (history.initialisedAtCall[p] /\ pc[p] # "idle" /\ pc'[p] # pc[p])
         => (loggers' = loggers /\ Log' = Log)]_svars

\* C10 witness: a call with options, begun after the initialisation, is about to
\* return, and the instance still has the threshold it was built with.
C10_Witness ==
  \E p \in Procs :
    /\ history.initialisedAtCall[p]
    /\ pc[p] = "return"
    /\ opts[p] = <<Opt("WithLevel", "debug")>>
    /\ Log = 2
    /\ loggers[Log].level = InfoLevel

\* C11: a NewSingletonLogger call that is about to return an error returns the
\* nil logger.
C11_ErrorReturnsNil ==
  \A p \in Procs : (pc[p] = "return" /\ err[p]) => SingletonResult(p) = 0

(***************************************************************************)
(* Goroutines calling the package-level functions on the global Log.  Each *)
(* read and each write of the package variables is a step of its own, so   *)
(* that two goroutines can stand before their accesses at the same time.   *)
(***************************************************************************)

\* the package-level calls made in a run
MaxPackageCalls == 1

\* the package-level calls the goroutines make: function and argument
PackageCalls ==
  {[fn |-> "Info", arg |-> ""],
   [fn |-> "SetLevel", arg |-> "debug"],
   [fn |-> "AddFileOutputHook", arg |-> "a.log"]}

\* the calls in flight that will add a hook to a logger, and those that build a sink
AddingHook == {q \in Procs : local[q].fn = "AddFileOutputHook" \/ local[q].arg = "debug"}
AddingSink == {q \in Procs : local[q].fn = "AddFileOutputHook"}

\* the option lists the goroutines build loggers with: none, and one that fails
GlobalOptLists == {<<>>, <<Opt("WithLevel", "invalid")>>}

\* NewLogger(opts...): logger, err := createNewLogger(opts...); if err != nil return
NewLoggerBuild(p, os) ==
  /\ alive
  /\ pc[p] = "idle"
  /\ built < MaxBuilds
  /\ built' = built + 1
  /\ history' = [history EXCEPT !.newLogger = TRUE,
                                !.returned = NewLoggerReturn(os, createNewLogger(os), Len(loggers) + 1)]
  /\ IF createNewLogger(os).err
       THEN UNCHANGED <<loggers, pc, local>>
       ELSE /\ loggers' = Append(loggers, createNewLogger(os).logger)
            /\ local' = [local EXCEPT ![p] = [NoCall EXCEPT !.fn = "NewLogger",
                                                             !.logger = Len(loggers) + 1]]
            /\ pc' = [pc EXCEPT ![p] = "assign"]
  /\ UNCHANGED <<Log, onceDone, onceMu, opts, err>>
  /\ UNCHANGED <<kvars, caller, out, last, alive>>

\* NewLogger: Log = logger; return logger, nil
NewLoggerAssign(p) ==
  /\ alive
  /\ pc[p] = "assign"
  /\ Log' = local[p].logger
  /\ local' = [local EXCEPT ![p] = NoCall]
  /\ pc' = [pc EXCEPT ![p] = "idle"]
  /\ UNCHANGED <<loggers, onceDone, onceMu, opts, err, built, history>>
  /\ UNCHANGED <<kvars, caller, out, last, alive>>

\* a goroutine enters Info, SetLevel or AddFileOutputHook
PackageCall(p, c) ==
  /\ alive
  /\ pc[p] = "idle"
  /\ history.calls < MaxPackageCalls
  /\ c.fn = "Info" => Len(events) < MaxCalls
  /\ (c.fn = "AddFileOutputHook" \/ c.arg = "debug") =>
       \A i \in DOMAIN loggers : Len(loggers[i].hooks) + Cardinality(AddingHook) < MaxHooks
  /\ c.fn = "AddFileOutputHook" => Len(sinks) + Cardinality(AddingSink) < MaxSinks
  /\ local' = [local EXCEPT ![p] = [fn |-> c.fn, arg |-> c.arg, logger |-> 0, stage |-> 1]]
  /\ pc' = [pc EXCEPT ![p] = "load"]
  /\ history' = [history EXCEPT !.calls = @ + 1]
  /\ UNCHANGED <<loggers, Log, onceDone, onceMu, opts, err, built>>
  /\ UNCHANGED <<kvars, caller, out, last, alive>>

\* the function evaluates Log.Entry (Log.Info, Log.Entry.Logger): the read of Log,
\* and the nil pointer dereference when Log is nil
PackageLoad(p) ==
  /\ alive
  /\ pc[p] = "load"
  /\ IF Log = 0
       THEN /\ pc' = [pc EXCEPT ![p] = "nil dereference"]
            /\ alive' = FALSE
            /\ UNCHANGED local
       ELSE /\ pc' = [pc EXCEPT ![p] = "apply"]
            /\ local' = [local EXCEPT ![p].logger = Log]
            /\ UNCHANGED alive
  /\ UNCHANGED <<loggers, Log, onceDone, onceMu, opts, err, built, history>>
  /\ UNCHANGED <<kvars, caller, out, last>>

\* the hooks Entry.log fires for an Info event of logger l
InfoHooks(l) ==
  FireHooks(HooksAt(l, InfoLevel), 1, NothingFired,
            [id |-> Len(events) + 1, level |-> InfoLevel, n |-> 1])

\* Log.Info(args...) on the logger read: the entry is gated, fired and written
ApplyInfo(p, l) ==
  /\ IF IsLevelEnabled(l, InfoLevel)
       THEN LogCallDone(InfoLevel, 1, l, TRUE, InfoHooks(l))
       ELSE LogCallDone(InfoLevel, 1, l, FALSE, NothingFired)
  /\ pc' = [pc EXCEPT ![p] = "done"]
  /\ UNCHANGED <<loggers, now, mu, fpc, fev, workload>>

\* SetLevel, one statement per stage, each on the logger Log held when it was read:
\* Logger.SetLevel(parsedLevel); Logger.SetFormatter(colorFormatter);
\* Logger.AddHook(NewRuntimeContextHook(3))
ApplySetLevel(p, i, level, stage) ==
  /\ loggers' = [loggers EXCEPT ![i] =
       CASE stage = 1 -> [@ EXCEPT !.level = ParseLevel(level), !.asked = level]
         [] stage = 2 -> [@ EXCEPT !.formatter = "color"]
         [] stage = 3 -> [@ EXCEPT !.hooks = Append(@, NewRuntimeContextHook(3))]]
  /\ IF stage < 3 /\ ParseLevel(level) \in {DebugLevel, TraceLevel}
       THEN /\ pc' = [pc EXCEPT ![p] = "load"]
            /\ local' = [local EXCEPT ![p].stage = stage + 1, ![p].logger = 0]
       ELSE /\ pc' = [pc EXCEPT ![p] = "done"]
            /\ UNCHANGED local
  /\ UNCHANGED <<kvars, caller, out, last, alive>>

\* AddFileOutputHook: the hook built from the nil config, then Logger.AddHook(hook)
ApplyAddHook(p, i, filename, hook) ==
  /\ sinks' = Append(sinks, hook)
  /\ mu' = Append(mu, 0)
  /\ loggers' = [loggers EXCEPT ![i].hooks =
       Append(@, [kind |-> "file", sink |-> Len(sinks) + 1, levels |-> HookLevels(hook)])]
  /\ pc' = [pc EXCEPT ![p] = "done"]
  /\ UNCHANGED <<disk, now, fpc, fev, events, workload>>
  /\ UNCHANGED lvars

\* the method called on the logger that was read, inside logrus under Logger.mu
PackageApply(p) ==
  /\ alive
  /\ pc[p] = "apply"
  /\ CASE local[p].fn = "Info" -> ApplyInfo(p, loggers[local[p].logger])
       [] local[p].fn = "SetLevel" ->
            ApplySetLevel(p, local[p].logger, local[p].arg, local[p].stage)
       [] local[p].fn = "AddFileOutputHook" ->
            ApplyAddHook(p, local[p].logger, local[p].arg,
                         newRotatingFileHook([ZeroConfig EXCEPT !.Filename = local[p].arg]).hook)
  /\ UNCHANGED <<Log, onceDone, onceMu, opts, err, built, history>>

\* the package-level function returns
PackageReturn(p) ==
  /\ alive
  /\ pc[p] = "done"
  /\ pc' = [pc EXCEPT ![p] = "idle"]
  /\ local' = [local EXCEPT ![p] = NoCall]
  /\ UNCHANGED <<loggers, Log, onceDone, onceMu, opts, err, built, history>>
  /\ UNCHANGED <<kvars, caller, out, last, alive>>

NextGlobal ==
  \E p \in Procs :
    \/ \E os \in GlobalOptLists : NewLoggerBuild(p, os)
    \/ NewLoggerAssign(p)
    \/ \E os \in GlobalOptLists : SingletonCall(p, os)
    \/ OnceDo(p)
    \/ OnceLock(p)
    \/ OnceSlow(p)
    \/ OnceStore(p)
    \/ OnceUnlock(p)
    \/ SingletonReturn(p)
    \/ ResetLogger(p)
    \/ \E c \in PackageCalls : PackageCall(p, c)
    \/ PackageLoad(p)
    \/ PackageApply(p)
    \/ PackageReturn(p)

\* the package as init() leaves it, with goroutines about to call into it
InitGlobal ==
  /\ InitPackage
  /\ NoSinks
  /\ NoLogs

SpecGlobal == InitGlobal /\ [][NextGlobal]_vars

\* C12: the global Log is never nil and no package-level function has dereferenced
\* a nil Log.
C12_GlobalNeverNil ==
  /\ Log # 0
  /\ \A p \in Procs : pc[p] # "nil dereference"

\* the access to a shared variable that goroutine p's next step makes: the variable,
\* whether it is written, and the locks (or atomic operation) the access is made under
Accesses(p) ==
  CASE pc[p] = "assign" -> {[var |-> <<"Log">>, write |-> TRUE, locks |-> {}]}
    [] pc[p] = "load" -> {[var |-> <<"Log">>, write |-> FALSE, locks |-> {}]}
    [] pc[p] = "return" -> {[var |-> <<"Log">>, write |-> FALSE, locks |-> {}]}
    [] pc[p] = "do" -> {[var |-> <<"loggerOnce">>, write |-> FALSE, locks |-> {"atomic"}]}
    [] pc[p] = "slow" ->
         {[var |-> <<"loggerOnce">>, write |-> FALSE, locks |-> {"loggerOnce.m"}]}
           \cup (IF OnceNotDone /\ ~createNewLogger(opts[p]).err
                   THEN {[var |-> <<"Log">>, write |-> TRUE, locks |-> {"loggerOnce.m"}]}
                   ELSE {})
    [] pc[p] = "store" ->
         {[var |-> <<"loggerOnce">>, write |-> TRUE, locks |-> {"loggerOnce.m", "atomic"}]}
    [] pc[p] = "apply" ->
         {[var |-> <<"Hooks", local[p].logger>>,
           write |-> (local[p].fn = "AddFileOutputHook" \/ local[p].stage = 3),
           locks |-> {"Logger.mu"}]}
    [] OTHER -> {}

\* two accesses to one variable, one of them a write, under no common lock
Conflict(a, b) == a.var = b.var /\ (a.write \/ b.write) /\ a.locks \cap b.locks = {}

\* two goroutines each about to make one of a pair of conflicting accesses
DataRace ==
  \E p \in Procs : \E q \in Procs \ {p} :
    \E a \in Accesses(p), b \in Accesses(q) : Conflict(a, b)

\* C13: no two goroutines calling the logging functions, NewLogger,
\* NewSingletonLogger, SetLevel and AddFileOutputHook ever stand before conflicting
\* unsynchronised accesses to Log, loggerOnce or a logger's hook list.
C13_NoDataRace == alive => ~DataRace

(***************************************************************************)
(* The caller-context hook.                                                *)
(***************************************************************************)

\* the caller-context hooks among hs
CtxHooks(hs) == {j \in DOMAIN hs : hs[j].kind = "ctx"}

\* the entry of the last logging call as it was written to the output
LastOut == CHOOSE o \in Range(out) : o.id = last.id

Contains(s, pat) ==
  \E i \in 1..(Len(s) - Len(pat) + 1) : SubSeq(s, i, i + Len(pat) - 1) = pat

\* strings.LastIndex(s, tok), counting from 1; 0 when tok does not occur (Go: -1)
LastIndex(s, tok) ==
  IF tok \in Range(s) THEN CHOOSE i \in DOMAIN s : s[i] = tok /\ \A j \in DOMAIN s : s[j] = tok => j <= i
  ELSE 0

\* strings.Index(s, tok), counting from 1
Index(s, tok) == CHOOSE i \in DOMAIN s : s[i] = tok /\ \A j \in DOMAIN s : s[j] = tok => j >= i

\* strings.Split(s, sep): the pieces between the separators, empty ones included
RECURSIVE Split(_, _)
Split(s, sep) ==
  IF sep \notin Range(s) THEN <<s>>
  ELSE <<SubSeq(s, 1, Index(s, sep) - 1)>> \o Split(SubSeq(s, Index(s, sep) + 1, Len(s)), sep)

\* filepath.Join(a, b) of two clean elements: empty elements are ignored
Join(a, b) == IF a = <<>> THEN b ELSE IF b = <<>> THEN a ELSE a \o <<"/">> \o b

\* the filter of extractCallerInfo on a frame
Accepted(f) ==
  /\ ~Contains(f.fn, <<"logrus">>)
  /\ ~Contains(f.fn, <<"runtime", ".">>)
  /\ ~Contains(f.fn, <<"testing", ".">>)
  /\ ~Contains(f.file, <<"runtime", "/">>)
  /\ ~Contains(f.file, <<"testing", "/">>)
  /\ ~Contains(f.file, <<"logger", ".", "go">>)
  /\ ~Contains(f.fn, <<"WithRuntimeContext">>)

\* info.fileName as a parts of fewer than two elements would give it
FileName_LastOnly(fileParts) == fileParts[Len(fileParts)]

\* info.fileName from fileParts := strings.Split(file, string(filepath.Separator))
FileName(fileParts) ==
  IF Len(fileParts) >= 2
    THEN Join(fileParts[Len(fileParts) - 1], fileParts[Len(fileParts)])
    ELSE fileParts[Len(fileParts)]

\* info.pkgName: the last element of strings.Split(pkgPath, "/")
PkgName(pkgPath) == Split(pkgPath, "/")[Len(Split(pkgPath, "/"))]

\* the callerInfo of an accepted frame f, found at stack index i, with lastDot # -1
CallerInfo(f, i, lastDot) ==
  [ok |-> TRUE, at |-> i, funcName |-> f.fn,
   fileName |-> FileName(Split(f.file, "/")), line |-> f.line,
   pkgName |-> PkgName(SubSeq(f.fn, 1, lastDot - 1)),
   shortFunc |-> SubSeq(f.fn, lastDot + 1, Len(f.fn))]

\* the loop of extractCallerInfo from frame i up to, not including, frame end:
\* runtime.Caller(i) fails beyond the stack
RECURSIVE ScanFrames(_, _, _)
ScanFrames(stack, i, end) ==
  IF i >= end THEN [ok |-> FALSE]
  ELSE IF i + 1 <= Len(stack) /\ Accepted(stack[i + 1]) /\ LastIndex(stack[i + 1].fn, ".") # 0
    THEN CallerInfo(stack[i + 1], i, LastIndex(stack[i + 1].fn, "."))
    ELSE ScanFrames(stack, i + 1, end)

\* the frames extractCallerInfo looks at
FrameWindow == 15

\* an extractCallerInfo that scans to the bottom of the stack
extractCallerInfo_WholeStack(stack, skipFrames) == ScanFrames(stack, skipFrames, Len(stack))

\* extractCallerInfo(skipFrames) called on this stack
extractCallerInfo(stack, skipFrames) == ScanFrames(stack, skipFrames, skipFrames + FrameWindow)

\* entry.Data after runtimeContextHook.Fire got info: funcText, srcText
FireData(info) ==
  IF info.ok
    THEN [func |-> info.pkgName \o <<".">> \o info.shortFunc,
          src |-> info.fileName \o <<":", info.line>>]
    ELSE [func |-> <<>>, src |-> <<>>]

\* the module path of the package and of logrus
ModulePath == <<"github", ".", "com", "/", "alejoacosta74", "/", "go-logger">>
LogrusPath == <<"github", ".", "com", "/", "sirupsen", "/", "logrus">>
ModuleDir == <<"/", "go", "/", "pkg", "/", "mod", "/">>

Frame(fn, file, line, user) == [fn |-> fn, file |-> file, line |-> line, user |-> user]

\* the frames of the package below a logging call: extractCallerInfo, Fire
HookFrames ==
  << Frame(ModulePath \o <<".", "extractCallerInfo">>,
           ModuleDir \o ModulePath \o <<"/", "color_formatter", ".", "go">>, 268, FALSE),
     Frame(ModulePath \o <<".", "(*runtimeContextHook)", ".", "Fire">>,
           ModuleDir \o ModulePath \o <<"/", "color_formatter", ".", "go">>, 307, FALSE) >>

\* the frames of logrus from LevelHooks.Fire up to the leveled method
LogrusFrames ==
  << Frame(LogrusPath \o <<".", "LevelHooks", ".", "Fire">>,
           ModuleDir \o LogrusPath \o <<"@v1.9.3", "/", "hooks", ".", "go">>, 28, FALSE),
     Frame(LogrusPath \o <<".", "(*Entry)", ".", "fireHooks">>,
           ModuleDir \o LogrusPath \o <<"@v1.9.3", "/", "entry", ".", "go">>, 280, FALSE),
     Frame(LogrusPath \o <<".", "(*Entry)", ".", "log">>,
           ModuleDir \o LogrusPath \o <<"@v1.9.3", "/", "entry", ".", "go">>, 242, FALSE),
     Frame(LogrusPath \o <<".", "(*Entry)", ".", "Log">>,
           ModuleDir \o LogrusPath \o <<"@v1.9.3", "/", "entry", ".", "go">>, 304, FALSE),
     Frame(LogrusPath \o <<".", "(*Entry)", ".", "Info">>,
           ModuleDir \o LogrusPath \o <<"@v1.9.3", "/", "entry", ".", "go">>, 321, FALSE) >>

\* the package-level Info of logger.go
PackageFrames ==
  << Frame(ModulePath \o <<".", "Info">>,
           ModuleDir \o ModulePath \o <<"/", "logger", ".", "go">>, 110, FALSE) >>

\* what runs the user's code: the test harness, or the runtime's main
HarnessFrames(harness) ==
  IF harness = "test"
    THEN << Frame(<<"testing", ".", "tRunner">>,
                  <<"/", "usr", "/", "go", "/", "src", "/", "testing", "/", "testing", ".", "go">>,
                  1595, FALSE),
            Frame(<<"runtime", ".", "goexit">>,
                  <<"/", "usr", "/", "go", "/", "src", "/", "runtime", "/", "asm_amd64", ".", "s">>,
                  1598, FALSE) >>
    ELSE << Frame(<<"runtime", ".", "main">>,
                  <<"/", "usr", "/", "go", "/", "src", "/", "runtime", "/", "proc", ".", "go">>,
                  250, FALSE),
            Frame(<<"runtime", ".", "goexit">>,
                  <<"/", "usr", "/", "go", "/", "src", "/", "runtime", "/", "asm_amd64", ".", "s">>,
                  1598, FALSE) >>

\* the user's functions: one of a package built with trimmed paths, a method in a
\* nested package, one in a file at the root, one in a file the user named logger.go
UserFrames ==
  { Frame(<<"pkg", ".", "Foo">>, <<"mod", "/", "foo", ".", "go">>, 42, TRUE),
    Frame(<<"github", ".", "com", "/", "acme", "/", "app", "/", "svc", ".", "(*Server)", ".", "handle">>,
          <<"/", "src", "/", "app", "/", "svc", "/", "server", ".", "go">>, 7, TRUE),
    Frame(<<"main", ".", "main">>, <<"/", "main", ".", "go">>, 12, TRUE),
    Frame(<<"main", ".", "helper">>, <<"/", "src", "/", "app", "/", "logger", ".", "go">>, 30, TRUE) }

\* the deepest chain of user helpers, and the largest skipFrames
MaxDepth == 3
MaxSkipFrames == 9

\* the user's call chains, innermost first
CallChains == UNION {[1..d -> UserFrames] : d \in 1..MaxDepth}

\* the deepest nesting of a logging wrapper library between the user and logrus
MaxWrappers == 12

\* n nested calls of a wrapper library whose package name contains logrus
WrapperFrames(n) ==
  [i \in 1..n |->
     Frame(<<"github", ".", "com", "/", "acme", "/", "logrus", "ext", ".", "Wrap">>,
           <<"/", "go", "/", "pkg", "/", "mod", "/", "acme", "/", "logrus", "ext", "/", "wrap", ".", "go">>,
           20, FALSE)]

\* the stack when the hook fires under a logging call
StackOf(via, wrappers, chain, harness) ==
  HookFrames \o LogrusFrames \o (IF via = "package" THEN PackageFrames ELSE <<>>)
    \o WrapperFrames(wrappers) \o chain \o HarnessFrames(harness)

\* the stack index of the innermost frame of the user's code
InnermostUser(stack) ==
  (CHOOSE i \in DOMAIN stack : stack[i].user /\ \A j \in DOMAIN stack : stack[j].user => j >= i) - 1

\* a runtimeContextHook with some skipFrames, about to fire under a logging call
InitCaller ==
  /\ InitPackage
  /\ NoSinks
  /\ out = <<>>
  /\ last = [called |-> FALSE]
  /\ alive = TRUE
  /\ local = [p \in Procs |-> NoCall]
  /\ \E via \in {"method", "package"}, wrappers \in {0, MaxWrappers}, chain \in CallChains,
        harness \in {"test", "main"}, skipFrames \in 0..MaxSkipFrames :
       caller = [step |-> "fire", stack |-> StackOf(via, wrappers, chain, harness),
                 skipFrames |-> skipFrames]

\* runtimeContextHook.Fire(entry)
CtxFire ==
  /\ caller.step = "fire"
  /\ caller' = [step |-> "fired", stack |-> caller.stack, skipFrames |-> caller.skipFrames,
                info |-> extractCallerInfo(caller.stack, caller.skipFrames),
                data |-> FireData(extractCallerInfo(caller.stack, caller.skipFrames))]
  /\ UNCHANGED <<svars, kvars, out, last, alive, local>>

NextCaller == CtxFire

SpecCaller == InitCaller /\ [][NextCaller]_vars

\* C15: whatever skipFrames is, extractCallerInfo resolves to the innermost frame of
\* the user's call chain.
C15_InnermostUserFrame ==
  caller.step = "fired" =>
    /\ caller.info.ok
    /\ caller.info.at = InnermostUser(caller.stack)

\* the part of s after its last tok (all of s when tok does not occur), and before it
AfterLast(s, tok) == SubSeq(s, LastIndex(s, tok) + 1, Len(s))
BeforeLast(s, tok) == SubSeq(s, 1, LastIndex(s, tok) - 1)

\* the path segments of a file path
Segments(path) == SelectSeq(Split(path, "/"), LAMBDA seg : seg # <<>>)

\* the frame extractCallerInfo accepted
AcceptedFrame == caller.stack[caller.info.at + 1]

\* C16: for the accepted frame with function name F, file P and line n, func is the
\* last "/"-segment of the part of F before its last dot, a dot, and the part of F
\* after its last dot; src is "<parent-dir>/<file>:<n>" when P has two path segments
\* or more, "<file>:<n>" otherwise; pkg.Foo at line 42 of mod/foo.go gives pkg.Foo
\* and mod/foo.go:42; and when the last dot of F comes after its last "/", func is
\* the part of F after its last "/".
C16_FuncAndSrcText ==
  (caller.step = "fired" /\ caller.info.ok) =>
    /\ caller.info.funcName = AcceptedFrame.fn
    /\ caller.data.func =
         AfterLast(BeforeLast(AcceptedFrame.fn, "."), "/") \o <<".">> \o AfterLast(AcceptedFrame.fn, ".")
    /\ caller.data.src =
         (IF Len(Segments(AcceptedFrame.file)) >= 2
            THEN Segments(AcceptedFrame.file)[Len(Segments(AcceptedFrame.file)) - 1] \o <<"/">>
                   \o Segments(AcceptedFrame.file)[Len(Segments(AcceptedFrame.file))]
            ELSE Segments(AcceptedFrame.file)[Len(Segments(AcceptedFrame.file))])
           \o <<":", AcceptedFrame.line>>
    /\ (AcceptedFrame.fn = <<"pkg", ".", "Foo">> /\ AcceptedFrame.line = 42
          /\ AcceptedFrame.file = <<"mod", "/", "foo", ".", "go">>)
         => /\ caller.data.func = <<"pkg", ".", "Foo">>
            /\ caller.data.src = <<"mod", "/", "foo", ".", "go", ":", 42>>
    /\ LastIndex(AcceptedFrame.fn, ".") > LastIndex(AcceptedFrame.fn, "/")
         => caller.data.func = AfterLast(AcceptedFrame.fn, "/")

\* C16 witness: the hook fired under a method of a nested package, in a file three
\* directories deep, and set func to svc.(*Server).handle and src to svc/server.go:7.
C16_Witness ==
  /\ caller.step = "fired"
  /\ caller.info.ok
  /\ caller.info.at = 7
  /\ caller.data.func = <<"svc", ".", "(*Server)", ".", "handle">>
  /\ caller.data.src = <<"svc", "/", "server", ".", "go", ":", 7>>

(***************************************************************************)
(* One event dispatched to several rotating file hooks.                    *)
(***************************************************************************)

\* the file hooks registered on the logger
MaxFileHooks == 2

\* AddFileOutputHook(filename, &RotatingFileConfig{MaxSize: maxSize}, levels...)
RegisterSink(filename, maxSize, levels) ==
  /\ alive
  /\ events = <<>>
  /\ Len(sinks) < MaxFileHooks
  /\ AddFileOutputHookBody(filename, Config("", maxSize, 0, 0, FALSE, <<>>), levels)

NextDispatch ==
  \/ \E filename \in Paths, maxSize \in 1..2, levels \in LevelLists :
       RegisterSink(filename, maxSize, levels)
  \/ \E level \in workload.levels, n \in workload.sizes : LogCall(level, n)

\* the package as init() leaves it, about to log lines of every length at every level
InitDispatch ==
  /\ InitPackage
  /\ sinks = <<>>
  /\ disk = [path \in Paths |-> NoFile]
  /\ now = 0
  /\ mu = <<>>
  /\ fpc = [g \in Procs |-> "idle"]
  /\ fev = [g \in Procs |-> NoEvent]
  /\ events = <<>>
  /\ workload = [levels |-> Levels, sizes |-> 1..MaxLine, cfg |-> NilConfig]
  /\ NoLogs

SpecDispatch == InitDispatch /\ [][NextDispatch]_vars

\* the hooks of the last call that are registered for its level
LastHooksAtLevel == SelectSeq(last.hooks, LAMBDA h : last.level \in h.levels)

\* C17: when a hook's Fire returned an error during the dispatch of an event, every
\* hook registered for the event's level was fired with the event, and the dispatch
\* reports the error of the first hook, in registration order, that failed.
C17_FailureIsolated ==
  (last.called /\ last.written /\ last.failed) =>
    /\ last.fired = LastHooksAtLevel
    /\ \A j \in DOMAIN last.fired :
         (last.fired[j].sink \notin events[last.id].wrote) => j = Len(last.fired)

\* C18: an invalid level name never ends the process: whenever the process has
\* ended, a Fatal or Panic logging call ended it, not a WithLevel option or a
\* SetLevel call.
C18_InvalidLevelNeverAborts ==
  ~alive => (last.called /\ last.level \in {PanicLevel, FatalLevel})

\* C19: an event written by a logger whose threshold is Info or more severe carries
\* neither func nor src, whatever SetLevel calls came before.
C19_NoContextAtInfo ==
  (last.called /\ last.written /\ ParseLevel(last.asked) <= InfoLevel) =>
    LastOut.fields \cap {"func", "src"} = {}

(***************************************************************************)
(* The hook's mutex under a fair scheduler.                                *)
(***************************************************************************)

\* a goroutine that can run takes its next step; sync.Mutex hands the lock to a
\* goroutine that keeps waiting for it (starvation mode)
FairSink ==
  \A g \in Procs :
    /\ SF_vars(FireLock(g))
    /\ WF_vars(FireWrite(g))
    /\ WF_vars(FireUnlock(g))

\* a hook on files of one megabyte, fired with lines of every length
InitFair ==
  /\ \E maxBackups \in 0..1 :
       InitSink(Config("a.log", 1, maxBackups, 0, FALSE, <<>>), {InfoLevel}, 1..MaxLine)
  /\ InitPackage
  /\ NoLogs

SpecRotateFair == InitFair /\ [][NextSink]_vars /\ FairSink

\* C20: a goroutine holds the hook's mutex only between the Lock and the deferred
\* Unlock of its Fire, never after Fire returned, whether Write succeeded or failed;
\* and every goroutine waiting for the mutex in Fire eventually acquires it.
C20_LockAlwaysReleased ==
  /\ [](\A g \in Procs : (mu[1] = g) => fpc[g] \in {"write", "unlock"})
  /\ \A g \in Procs : (fpc[g] = "lock") ~> (fpc[g] = "write" /\ mu[1] = g)

\* C20 witness: a Fire failed in Write and returned its error, and after it another
\* Fire holds the mutex.
C20_Witness ==
  /\ Len(events) >= 2
  /\ events[1].res = "err"
  /\ \E g \in Procs : fpc[g] = "write" /\ mu[1] = g /\ fev[g].id = 2

AcceptedInWindow ==
  {i \in caller.skipFrames..(caller.skipFrames + FrameWindow - 1) :
     i < Len(caller.stack) /\ Accepted(caller.stack[i + 1])}

\* C22: extractCallerInfo(skipFrames) returns the frame at the least depth among
\* skipFrames..skipFrames+14 that passes the exclusion filter, never one at a depth
\* below skipFrames, and returns found=false exactly when no frame at those depths
\* passes, whatever lies deeper.
C22_WindowOfFifteen ==
  caller.step = "fired" =>
    /\ caller.info.ok <=> AcceptedInWindow # {}
    /\ caller.info.ok =>
         /\ caller.info.at \in AcceptedInWindow
         /\ \A i \in AcceptedInWindow : caller.info.at <= i
         /\ caller.info.at >= caller.skipFrames
         /\ caller.info.funcName = caller.stack[caller.info.at + 1].fn

\* C22 witness: nothing in the window passes and found is false, while a frame of
\* the user's code that passes the filter lies below the window.
C22_Witness ==
  /\ caller.step = "fired"
  /\ ~caller.info.ok
  /\ caller.skipFrames = 3
  /\ \E i \in (caller.skipFrames + FrameWindow)..(Len(caller.stack) - 1) :
       caller.stack[i + 1].user /\ Accepted(caller.stack[i + 1])

\* the options of os that fail whatever logger they are applied to
Failing(os) == {i \in DOMAIN os : ApplyOption(LogrusNew, os[i]).err}

\* the options of os before the first one that fails
BeforeFailure(os) ==
  SubSeq(os, 1, (CHOOSE i \in Failing(os) : \A j \in Failing(os) : i <= j) - 1)

\* C23: a NewLogger call one of whose options fails returns nil and the error, has
\* applied the options before the failing one and none after it, and leaves the
\* global Log and every logger as they were.
C23_FailedNewLoggerKeepsGlobal ==
  /\ [](history.returned.err =>
          /\ history.returned.logger = 0
          /\ Failing(history.returned.opts) # {}
          /\ history.returned.built = createNewLogger(BeforeFailure(history.returned.opts)).logger)
  /\ [][\A p \in Procs, os \in OptLists :
          (NewLogger(p, os) /\ Failing(os) # {}) =>
            (history'.returned.err /\ Log' = Log /\ loggers' = loggers)]_vars

\* C23 witness: NewLogger succeeded and made its logger the global one, and a later
\* NewLogger whose second option failed returned nil with the global unchanged.
C23_Witness ==
  /\ history.returned.err
  /\ Len(history.returned.opts) = 3
  /\ history.returned.built.data = {"service"}
  /\ history.returned.built.out = "stderr"
  /\ built = 2
  /\ Log = 2

C25_NilErrorMeansLogger ==
  \A p \in Procs : (pc[p] = "return" /\ ~err[p]) => SingletonResult(p) # 0

NoFields == [k \in {} |-> <<>>]

\* m[k] = v
MapSet(m, k, v) == [x \in DOMAIN m \cup {k} |-> IF x = k THEN v ELSE m[x]]

\* the logger's base entry Log.Entry: its Data holds the logger's fields
BaseData(l) == [k \in l.data |-> <<"base">>]

\* an Entry.Dup that hands out the entry with the map it has
Dup_Shared(heap, entry) == [heap |-> heap, entry |-> entry]

\* logrus Entry.Dup: a new entry whose new map holds a copy of entry.Data
Dup(heap, entry) ==
  [heap |-> Append(heap, heap[entry.Data]), entry |-> [entry EXCEPT !.Data = Len(heap) + 1]]

\* logrus Entry.WithFields(fields): a new entry whose new map holds entry.Data and,
\* over it, fields (the package's WithField and WithFields call it on Log.Entry)
WithFields(heap, entry, fields) ==
  [heap |-> Append(heap, [k \in DOMAIN heap[entry.Data] \cup DOMAIN fields |->
                            IF k \in DOMAIN fields THEN fields[k] ELSE heap[entry.Data][k]]),
   entry |-> [entry EXCEPT !.Data = Len(heap) + 1]]

\* runtimeContextHook.Fire(entry) run on a call stack: [heap, entry, err]
runtimeContextHookFire(heap, entry, info) ==
  [heap |-> IF info.ok
              THEN [heap EXCEPT ![entry.Data] =
                      MapSet(MapSet(@, "func", FireData(info).func), "src", FireData(info).src)]
              ELSE heap,
   entry |-> entry,
   err |-> FALSE]

\* the runtimeContextHooks among the hooks fired, run one after another on the entry
RECURSIVE ContextFired(_, _, _, _, _)
ContextFired(fired, i, heap, entry, stack) ==
  IF i > Len(fired) THEN [heap |-> heap, entry |-> entry]
  ELSE IF fired[i].kind = "ctx"
    THEN ContextFired(fired, i + 1,
                      runtimeContextHookFire(heap, entry,
                                             extractCallerInfo(stack, fired[i].skipFrames)).heap,
                      runtimeContextHookFire(heap, entry,
                                             extractCallerInfo(stack, fired[i].skipFrames)).entry,
                      stack)
    ELSE ContextFired(fired, i + 1, heap, entry, stack)

\* leveled logging calls in one run of the field-map model
MaxContextCalls == 2

\* the entry is written and the call returns: given is the entry the leveled method
\* was called on, st what LevelHooks.Fire left, r the entry the hooks were fired on
ContextCallDone(level, n, fields, stack, given, st, r) ==
  /\ sinks' = st.sinks
  /\ disk' = st.disk
  /\ out' = Append(out, [id |-> Len(events) + 1, to |-> loggers[Log].out,
                         fields |-> DOMAIN r.heap[r.entry.Data]])
  /\ events' = Append(events,
       [level |-> level, n |-> n, via |-> "logger", at |-> 0, wrote |-> st.wrote,
        lines |-> st.lines,
        res |-> IF st.err THEN "err" ELSE IF st.wrote # {} THEN "ok" ELSE "none"])
  /\ last' = [called |-> TRUE, id |-> Len(events) + 1, level |-> level,
              asked |-> loggers[Log].asked, hooks |-> loggers[Log].hooks,
              written |-> TRUE, fired |-> st.fired, resolved |-> extractCallerInfo(stack, 3).ok,
              failed |-> st.err]
  /\ caller' = [step |-> "logged", stack |-> stack, fields |-> fields,
                level |-> level, message |-> n,
                base |-> BaseData(loggers[Log]),
                given |-> given.heap[given.entry.Data],
                entry |-> r.entry,
                data |-> r.heap[r.entry.Data],
                baseAfter |-> r.heap[1]]
  /\ loggers' = [loggers EXCEPT ![Log].data = DOMAIN r.heap[1]]
  /\ alive' = ~(level \in {FatalLevel, PanicLevel})

\* Entry.log: the entry is duplicated, level and message are set, the hooks fired
ContextCallLog(level, n, fields, stack, given, dup) ==
  ContextCallDone(level, n, fields, stack, given,
                  LogCallHooks(level, n),
                  ContextFired(LogCallHooks(level, n).fired, 1, dup.heap,
                               [dup.entry EXCEPT !.Level = level, !.Message = n], stack))

\* the entry a leveled call is made on: Log.Entry, or what WithFields made of it
ContextCallOn(level, n, fields, stack, given) ==
  ContextCallLog(level, n, fields, stack, given, Dup(given.heap, given.entry))

\* Info(...), Debug(...) on the global Log, or on WithFields(fields...), from a call
\* stack; the entry's level and message are unset until Entry.log sets them
ContextCall(level, n, fields, stack) ==
  /\ alive
  /\ Log # 0
  /\ Len(events) < MaxContextCalls
  /\ IsLevelEnabled(loggers[Log], level)
  /\ ContextCallOn(level, n, fields, stack,
       IF fields = NoFields
         THEN [heap |-> <<BaseData(loggers[Log])>>,
               entry |-> [Level |-> PanicLevel, Message |-> 0, Data |-> 1]]
         ELSE WithFields(<<BaseData(loggers[Log])>>,
                         [Level |-> PanicLevel, Message |-> 0, Data |-> 1], fields))
  /\ UNCHANGED <<Log, onceDone, onceMu, pc, opts, err, built, history>>
  /\ UNCHANGED <<now, mu, fpc, fev, workload, local>>

\* the fields callers pass to WithFields: none, or a request id and their own func
CallerFields ==
  { NoFields,
    [k \in {"req", "func"} |-> IF k = "req" THEN <<"7">> ELSE <<"mine">>] }

\* the call stacks of the logging calls: a user function calling the package's Info
\* (or the entry WithFields returned) directly, or through a deep chain of wrappers
ContextStacks(fields) ==
  { StackOf(IF fields = NoFields THEN "package" ELSE "method", wrappers, chain, "main") :
      wrappers \in {0, MaxWrappers},
      chain \in {c \in CallChains : Len(c) = 1 /\ c[1].fn[1] = "pkg"} }

\* the option lists the program builds its logger with
ContextOptLists ==
  { <<Opt("WithMultipleFields", "x")>>,
    <<Opt("WithMultipleFields", "x"), Opt("WithLevel", "trace"), Opt("WithLevel", "debug")>> }

NextContext ==
  \/ \E os \in ContextOptLists : BuildFirst(os)
  \/ \E level \in {"info", "debug"} : SetLevel(level)
  \/ \E levels \in {<<>>} : RegisterSink("a.log", 1, levels)
  \/ \E level \in workload.levels, n \in workload.sizes, fields \in DOMAIN workload.stacks :
       \E stack \in workload.stacks[fields] :
         ContextCall(level, n, fields, stack)

\* the package as init() leaves it, and the calls the program is about to make:
\* short and oversize lines, with and without fields, from each call stack
InitContext ==
  /\ InitPackage
  /\ sinks = <<>>
  /\ disk = [path \in Paths |-> NoFile]
  /\ now = 0
  /\ mu = <<>>
  /\ fpc = [g \in Procs |-> "idle"]
  /\ fev = [g \in Procs |-> NoEvent]
  /\ events = <<>>
  /\ workload = [levels |-> {InfoLevel, DebugLevel}, sizes |-> {1, MaxLine}, cfg |-> NilConfig,
                 stacks |-> [fields \in CallerFields |-> ContextStacks(fields)]]
  /\ NoLogs

SpecContext == InitContext /\ [][NextContext]_vars

\* the caller-context hooks registered on logger l
NumCtx(l) == Cardinality(CtxHooks(l.hooks))

\* the WithLevel options of a list that name debug or trace
ContextOptions(os) ==
  {i \in DOMAIN os : os[i].op = "WithLevel" /\ ParseLevel(os[i].arg) \in {DebugLevel, TraceLevel}}

\* how often the resolver ran on the last event: the runtimeContextHooks fired
ResolverRuns == Cardinality(CtxHooks(last.fired))

\* entry.Data as one runtimeContextHook leaves the entry the call was made on
SingleHookData ==
  runtimeContextHookFire(<<caller.given>>, [Data |-> 1],
                         extractCallerInfo(caller.stack, 3)).heap[1]

Resolved == ResolverRuns >= 1 /\ extractCallerInfo(caller.stack, 3).ok

\* C28: the runtimeContextHooks fired on an event leave the entry's level and message
\* as Entry.log set them and every field other than func and src as the call gave it;
\* when the caller resolves, func and src hold the resolved text, whatever the call
\* gave under these keys, and otherwise the fields are those the call gave; a
\* runtimeContextHook never returns an error, so a failed dispatch ends at a rotating
\* file hook; the logger's own fields are never changed, so an event whose resolution
\* failed has func or src only if its own call supplied it.
C28_OnlyFuncAndSrc ==
  caller.step = "logged" =>
    /\ caller.entry.Level = caller.level
    /\ caller.entry.Message = caller.message
    /\ DOMAIN caller.data \ {"func", "src"} = DOMAIN caller.given \ {"func", "src"}
    /\ \A k \in DOMAIN caller.given \ {"func", "src"} : caller.data[k] = caller.given[k]
    /\ Resolved =>
         /\ caller.data["func"] = FireData(extractCallerInfo(caller.stack, 3)).func
         /\ caller.data["src"] = FireData(extractCallerInfo(caller.stack, 3)).src
    /\ ~Resolved => caller.data = caller.given
    /\ last.failed => last.fired[Len(last.fired)].kind = "file"
    /\ caller.baseAfter = caller.base
    /\ loggers[Log].data = DOMAIN caller.base
    /\ loggers[Log].data \cap {"func", "src"} = {}
    /\ ~Resolved => (DOMAIN caller.data \cap {"func", "src"}) \subseteq DOMAIN caller.fields

\* C28 witness: a first event was written with func and src; on the second, made
\* with no fields of its own, the hook ran and the resolution failed, and the event
\* was written with the logger's fields and without func and src.
C28_Witness ==
  /\ caller.step = "logged"
  /\ Len(out) = 2
  /\ {"func", "src"} \subseteq out[1].fields
  /\ ResolverRuns >= 1
  /\ ~extractCallerInfo(caller.stack, 3).ok
  /\ caller.fields = NoFields
  /\ out[2].fields = {"service"}
  /\ caller.data = caller.base

\* the file of the hook's lumberjack.Logger has been closed after it was written
ClosedAfterUse == ~sinks[1].file /\ disk[ThePath].exists

====
